---- MODULE Spec2Model ----
(***************************************************************************)
(* Model of the Everest Meeting Meter component                            *)
(* (src/src/components/everest.tsx): the pausable animation-frame clock,   *)
(* the session parameters and their derived values (oxygen reading,        *)
(* equivalent altitude, live cost) and the note log.                       *)
(*                                                                         *)
(* Units.  JavaScript numbers are modelled exactly, in fixed units:        *)
(*   - wall-clock and elapsed time in centiseconds (10 ms);                *)
(*   - numbers typed into the numeric inputs in tenths (4 is 40, 0.6 is 6, *)
(*     -1.5 is -15);                                                       *)
(*   - oxygen volumes in 1/60000 litre, so that                            *)
(*     onsite * perPersonO2Lpm * (seconds / 60) is an integer;             *)
(*   - real-valued results as exact rationals [num, den], den > 0.         *)
(* Floating-point rounding is not modelled.                                *)
(***************************************************************************)
EXTENDS Integers, Sequences, FiniteSets, TLC

Max(a, b) == IF a >= b THEN a ELSE b
Min(a, b) == IF a <= b THEN a ELSE b

(* Exact rationals; two with the same denominator compare by numerator. *)
Rat(n, d) == [num |-> n, den |-> d]
RLe(a, b) == IF a.den = b.den THEN a.num <= b.num ELSE a.num * b.den <= b.num * a.den
RLt(a, b) == IF a.den = b.den THEN a.num < b.num ELSE a.num * b.den < b.num * a.den
REq(a, b) == IF a.den = b.den THEN a.num = b.num ELSE a.num * b.den = b.num * a.den
RMax(a, b) == IF RLe(b, a) THEN a ELSE b
RMin(a, b) == IF RLe(a, b) THEN a ELSE b

(***************************************************************************)
(* Math.log on (0, 1], tabulated: LnTable[k] is ln(k / 1000) in millionths *)
(* for k in 1..1000.                                                       *)
(***************************************************************************)
LnTable == <<
    -6907755, -6214608, -5809143, -5521461, -5298317, -5115996, -4961845, -4828314, -4710531, -4605170,
    -4509860, -4422849, -4342806, -4268698, -4199705, -4135167, -4074542, -4017384, -3963316, -3912023,
    -3863233, -3816713, -3772261, -3729701, -3688879, -3649659, -3611918, -3575551, -3540459, -3506558,
    -3473768, -3442019, -3411248, -3381395, -3352407, -3324236, -3296837, -3270169, -3244194, -3218876,
    -3194183, -3170086, -3146555, -3123566, -3101093, -3079114, -3057608, -3036554, -3015935, -2995732,
    -2975930, -2956512, -2937463, -2918771, -2900422, -2882404, -2864704, -2847312, -2830218, -2813411,
    -2796881, -2780621, -2764621, -2748872, -2733368, -2718101, -2703063, -2688248, -2673649, -2659260,
    -2645075, -2631089, -2617296, -2603690, -2590267, -2577022, -2563950, -2551046, -2538307, -2525729,
    -2513306, -2501036, -2488915, -2476938, -2465104, -2453408, -2441847, -2430418, -2419119, -2407946,
    -2396896, -2385967, -2375156, -2364460, -2353878, -2343407, -2333044, -2322788, -2312635, -2302585,
    -2292635, -2282782, -2273026, -2263364, -2253795, -2244316, -2234926, -2225624, -2216407, -2207275,
    -2198225, -2189256, -2180367, -2171557, -2162823, -2154165, -2145581, -2137071, -2128632, -2120264,
    -2111965, -2103734, -2095571, -2087474, -2079442, -2071473, -2063568, -2055725, -2047943, -2040221,
    -2032558, -2024953, -2017406, -2009915, -2002481, -1995100, -1987774, -1980502, -1973281, -1966113,
    -1958995, -1951928, -1944911, -1937942, -1931022, -1924149, -1917323, -1910543, -1903809, -1897120,
    -1890475, -1883875, -1877317, -1870803, -1864330, -1857899, -1851509, -1845160, -1838851, -1832581,
    -1826351, -1820159, -1814005, -1807889, -1801810, -1795767, -1789761, -1783791, -1777857, -1771957,
    -1766092, -1760261, -1754464, -1748700, -1742969, -1737271, -1731606, -1725972, -1720369, -1714798,
    -1709258, -1703749, -1698269, -1692820, -1687399, -1682009, -1676647, -1671313, -1666008, -1660731,
    -1655482, -1650260, -1645065, -1639897, -1634756, -1629641, -1624552, -1619488, -1614450, -1609438,
    -1604450, -1599488, -1594549, -1589635, -1584745, -1579879, -1575036, -1570217, -1565421, -1560648,
    -1555897, -1551169, -1546463, -1541779, -1537117, -1532477, -1527858, -1523260, -1518684, -1514128,
    -1509593, -1505078, -1500584, -1496109, -1491655, -1487220, -1482805, -1478410, -1474033, -1469676,
    -1465338, -1461018, -1456717, -1452434, -1448170, -1443923, -1439695, -1435485, -1431292, -1427116,
    -1422958, -1418818, -1414694, -1410587, -1406497, -1402424, -1398367, -1394327, -1390302, -1386294,
    -1382302, -1378326, -1374366, -1370421, -1366492, -1362578, -1358679, -1354796, -1350927, -1347074,
    -1343235, -1339411, -1335601, -1331806, -1328025, -1324259, -1320507, -1316768, -1313044, -1309333,
    -1305636, -1301953, -1298283, -1294627, -1290984, -1287354, -1283738, -1280134, -1276543, -1272966,
    -1269401, -1265848, -1262308, -1258781, -1255266, -1251763, -1248273, -1244795, -1241329, -1237874,
    -1234432, -1231001, -1227583, -1224176, -1220780, -1217396, -1214023, -1210662, -1207312, -1203973,
    -1200645, -1197328, -1194022, -1190728, -1187444, -1184170, -1180908, -1177655, -1174414, -1171183,
    -1167962, -1164752, -1161552, -1158362, -1155183, -1152013, -1148854, -1145704, -1142564, -1139434,
    -1136314, -1133204, -1130103, -1127012, -1123930, -1120858, -1117795, -1114742, -1111698, -1108663,
    -1105637, -1102620, -1099613, -1096614, -1093625, -1090644, -1087672, -1084709, -1081755, -1078810,
    -1075873, -1072945, -1070025, -1067114, -1064211, -1061317, -1058430, -1055553, -1052683, -1049822,
    -1046969, -1044124, -1041287, -1038458, -1035637, -1032825, -1030019, -1027222, -1024433, -1021651,
    -1018877, -1016111, -1013352, -1010601, -1007858, -1005122, -1002393, -999672, -996959, -994252,
    -991553, -988861, -986177, -983499, -980829, -978166, -975510, -972861, -970219, -967584,
    -964956, -962335, -959720, -957113, -954512, -951918, -949331, -946750, -944176, -941609,
    -939048, -936493, -933946, -931404, -928870, -926341, -923819, -921303, -918794, -916291,
    -913794, -911303, -908819, -906340, -903868, -901402, -898942, -896488, -894040, -891598,
    -889162, -886732, -884308, -881889, -879477, -877070, -874669, -872274, -869884, -867501,
    -865122, -862750, -860383, -858022, -855666, -853316, -850971, -848632, -846298, -843970,
    -841647, -839330, -837018, -834711, -832409, -830113, -827822, -825536, -823256, -820981,
    -818710, -816445, -814186, -811931, -809681, -807436, -805197, -802962, -800732, -798508,
    -796288, -794073, -791863, -789658, -787458, -785262, -783072, -780886, -778705, -776529,
    -774357, -772190, -770028, -767871, -765718, -763570, -761426, -759287, -757153, -755023,
    -752897, -750776, -748660, -746548, -744440, -742337, -740239, -738145, -736055, -733969,
    -731888, -729811, -727739, -725670, -723606, -721547, -719491, -717440, -715393, -713350,
    -711311, -709277, -707246, -705220, -703198, -701179, -699165, -697155, -695149, -693147,
    -691149, -689155, -687165, -685179, -683197, -681219, -679244, -677274, -675307, -673345,
    -671386, -669431, -667479, -665532, -663588, -661649, -659712, -657780, -655851, -653926,
    -652005, -650088, -648174, -646264, -644357, -642454, -640555, -638659, -636767, -634878,
    -632993, -631112, -629234, -627359, -625489, -623621, -621757, -619897, -618040, -616186,
    -614336, -612489, -610646, -608806, -606969, -605136, -603306, -601480, -599657, -597837,
    -596020, -594207, -592397, -590591, -588787, -586987, -585190, -583396, -581606, -579818,
    -578034, -576253, -574476, -572701, -570930, -569161, -567396, -565634, -563875, -562119,
    -560366, -558616, -556870, -555126, -553385, -551648, -549913, -548181, -546453, -544727,
    -543005, -541285, -539568, -537854, -536143, -534435, -532730, -531028, -529329, -527633,
    -525939, -524249, -522561, -520876, -519194, -517515, -515838, -514165, -512494, -510826,
    -509160, -507498, -505838, -504181, -502527, -500875, -499226, -497580, -495937, -494296,
    -492658, -491023, -489390, -487760, -486133, -484508, -482886, -481267, -479650, -478036,
    -476424, -474815, -473209, -471605, -470004, -468405, -466809, -465215, -463624, -462035,
    -460449, -458866, -457285, -455706, -454130, -452557, -450986, -449417, -447851, -446287,
    -444726, -443167, -441611, -440057, -438505, -436956, -435409, -433865, -432323, -430783,
    -429246, -427711, -426178, -424648, -423120, -421594, -420071, -418550, -417032, -415515,
    -414001, -412490, -410980, -409473, -407968, -406466, -404965, -403467, -401971, -400478,
    -398986, -397497, -396010, -394525, -393043, -391562, -390084, -388608, -387134, -385662,
    -384193, -382726, -381260, -379797, -378336, -376878, -375421, -373966, -372514, -371064,
    -369615, -368169, -366725, -365283, -363843, -362406, -360970, -359536, -358105, -356675,
    -355247, -353822, -352398, -350977, -349557, -348140, -346725, -345311, -343900, -342490,
    -341083, -339677, -338274, -336872, -335473, -334075, -332679, -331286, -329894, -328504,
    -327116, -325730, -324346, -322964, -321584, -320205, -318829, -317454, -316082, -314711,
    -313342, -311975, -310610, -309246, -307885, -306525, -305167, -303811, -302457, -301105,
    -299755, -298406, -297059, -295714, -294371, -293030, -291690, -290352, -289016, -287682,
    -286350, -285019, -283690, -282363, -281038, -279714, -278392, -277072, -275754, -274437,
    -273122, -271809, -270497, -269187, -267879, -266573, -265268, -263966, -262664, -261365,
    -260067, -258771, -257476, -256183, -254892, -253603, -252315, -251029, -249744, -248461,
    -247180, -245901, -244623, -243346, -242072, -240798, -239527, -238257, -236989, -235722,
    -234457, -233194, -231932, -230672, -229413, -228156, -226901, -225647, -224394, -223144,
    -221894, -220647, -219401, -218156, -216913, -215672, -214432, -213193, -211956, -210721,
    -209487, -208255, -207024, -205795, -204567, -203341, -202116, -200893, -199671, -198451,
    -197232, -196015, -194799, -193585, -192372, -191161, -189951, -188742, -187535, -186330,
    -185125, -183923, -182722, -181522, -180324, -179127, -177931, -176737, -175545, -174353,
    -173164, -171975, -170788, -169603, -168419, -167236, -166055, -164875, -163696, -162519,
    -161343, -160169, -158996, -157824, -156654, -155485, -154317, -153151, -151986, -150823,
    -149661, -148500, -147341, -146183, -145026, -143870, -142716, -141564, -140412, -139262,
    -138113, -136966, -135820, -134675, -133531, -132389, -131248, -130109, -128970, -127833,
    -126698, -125563, -124430, -123298, -122168, -121038, -119910, -118784, -117658, -116534,
    -115411, -114289, -113169, -112050, -110932, -109815, -108699, -107585, -106472, -105361,
    -104250, -103141, -102033, -100926, -99820, -98716, -97613, -96511, -95410, -94311,
    -93212, -92115, -91019, -89925, -88831, -87739, -86648, -85558, -84469, -83382,
    -82295, -81210, -80126, -79043, -77962, -76881, -75802, -74724, -73647, -72571,
    -71496, -70422, -69350, -68279, -67209, -66140, -65072, -64005, -62940, -61875,
    -60812, -59750, -58689, -57629, -56570, -55513, -54456, -53401, -52346, -51293,
    -50241, -49190, -48140, -47092, -46044, -44997, -43952, -42908, -41864, -40822,
    -39781, -38741, -37702, -36664, -35627, -34591, -33557, -32523, -31491, -30459,
    -29429, -28399, -27371, -26344, -25318, -24293, -23269, -22246, -21224, -20203,
    -19183, -18164, -17146, -16129, -15114, -14099, -13085, -12073, -11061, -10050,
    -9041, -8032, -7025, -6018, -5013, -4008, -3005, -2002, -1001, 0
>>

(* Math.log(ratio) in millionths, ratio given in thousandths (rounded down *)
(* to a thousandth).  Below 1/1000 the logarithm is at most ln(1/1000);    *)
(* above 1 it is -ln(1/ratio).                                             *)
MathLog(ratio) ==
    IF ratio < 1 THEN LnTable[1]
    ELSE IF ratio <= 1000 THEN LnTable[ratio]
    ELSE -LnTable[Max(1, 1000000 \div ratio)]

(* Program constants of the oxygen / altitude model. *)
F0 == 209000
MinFrac == 10000
MaxAltitude == 8848
DefaultCeiling == 3

(* equivalentAltitudeFromFraction without the cap: Math.max(0, h). *)
equivalentAltitudeFromFraction_uncapped(frac) ==
    IF frac.num <= 0 THEN MaxAltitude
    ELSE LET ratio == frac.num \div ((F0 \div 1000) * frac.den)
             h == (-7 * MathLog(ratio)) \div 1000
         IN  Max(0, h)

(***************************************************************************)
(* equivalentAltitudeFromFraction (lines 31-37).  frac is the oxygen       *)
(* fraction in millionths, as a rational; the result is in metres.         *)
(*   if (frac <= 0) return 8848;                                           *)
(*   ratio = frac / f0;  h = -7000 * Math.log(ratio);                      *)
(*   return Math.max(0, Math.min(8848, h));                                *)
(***************************************************************************)
equivalentAltitudeFromFraction(frac) ==
    IF frac.num <= 0 THEN MaxAltitude
    ELSE LET ratio == frac.num \div ((F0 \div 1000) * frac.den)
             h == (-7 * MathLog(ratio)) \div 1000
         IN  Max(0, Min(MaxAltitude, h))

(* computeO2Fraction without the floor: frac = remaining / volume_L. *)
computeO2Fraction_noFloor(seconds, onsiteCount, area, ceiling, perPersonO2Lpm) ==
    LET vol10 == Max(10, area * ceiling)
        consumed == onsiteCount * perPersonO2Lpm * seconds
        remaining == Max(0, vol10 * 6 * F0 - consumed)
        frac == Rat(remaining, 6 * vol10)
    IN  [frac |-> RMin(Rat(F0, 1), frac),
         percent |-> RMin(Rat(F0, 1), RMin(Rat(F0, 1), frac)),
         consumed_L |-> Rat(Max(0, consumed), 60000),
         volume_L |-> vol10 * 100]

(***************************************************************************)
(* computeO2Fraction (lines 40-66).  seconds in centiseconds, roomArea and *)
(* perPersonO2Lpm in tenths, ceiling in metres.  Litres are counted in     *)
(* 1/60000 litre: volume_L * f0 is vol10 * 6 * F0 and frac, in millionths, *)
(* is remaining / (6 * vol10), where vol10 is volume_m3 in tenths.         *)
(* percent is in ten-thousandths of a percent, the unit in which frac *    *)
(* 100 keeps the numerator of frac and 20.9 is written 209000.             *)
(***************************************************************************)
computeO2Fraction(seconds, onsiteCount, area, ceiling, perPersonO2Lpm) ==
    LET vol10 == Max(10, area * ceiling)
        volume_L == vol10 * 100
        totalO2_L_initial == vol10 * 6 * F0
        consumed == onsiteCount * perPersonO2Lpm * seconds
        remaining == Max(0, totalO2_L_initial - consumed)
        frac == RMax(Rat(MinFrac, 1), Rat(remaining, 6 * vol10))
    IN  [frac |-> RMin(Rat(F0, 1), frac),
         percent |-> RMin(Rat(F0, 1), RMin(Rat(F0, 1), frac)),
         consumed_L |-> Rat(Max(0, consumed), 60000),
         volume_L |-> volume_L]

(***************************************************************************)
(* Cost calculation (lines 228-229): participants * (hourly / 3600) *      *)
(* elapsed, hourly in tenths and elapsed in centiseconds.                  *)
(***************************************************************************)
(* The hourly cost taken per minute: hourly / 60. *)
costPerSecondPerPerson_perMinute(hourly) == Rat(hourly, 10 * 60)

costPerSecondPerPerson(hourly) == Rat(hourly, 10 * 3600)

LiveCostOf(people, hourly, seconds) ==
    Rat(people * costPerSecondPerPerson(hourly).num * seconds,
        costPerSecondPerPerson(hourly).den * 100)

(* Math.max(0, Math.floor(n)) of a number given in tenths (lines 207-208). *)
ClampCount(n) == Max(0, n \div 10)

(* participants = onsite + remote (line 209). *)
Participants(on, re) == ClampCount(on) + ClampCount(re)

(***************************************************************************)
(* Strings are sequences of characters.                                    *)
(***************************************************************************)
WhiteSpace == {" ", "\n"}

RECURSIVE TrimStart(_)
TrimStart(s) ==
    IF s # <<>> /\ Head(s) \in WhiteSpace THEN TrimStart(Tail(s)) ELSE s

RECURSIVE TrimEnd(_)
TrimEnd(s) ==
    IF s # <<>> /\ s[Len(s)] \in WhiteSpace
    THEN TrimEnd(SubSeq(s, 1, Len(s) - 1))
    ELSE s

(* trimStart for trim. *)
Trim_startOnly(s) == TrimStart(s)

(* String.prototype.trim (lines 238-239). *)
Trim(s) == TrimEnd(TrimStart(s))

Untitled == <<"(", "u", "n", "t", "i", "t", "l", "e", "d", ")">>
CHF == <<"C", "H", "F">>
EUR == <<"E", "U", "R">>

(***************************************************************************)
(* Bounds of the model and the values the user's inputs are drawn from.    *)
(***************************************************************************)
MaxNow == 7            \* wall-clock horizon of Spec, SpecNotes and SpecParams
MaxNowClock == 20      \* wall-clock horizon of SpecClock
MaxUuid == 1           \* notes created in Spec
MaxUuidNotes == 2      \* notes created in SpecNotes
MaxEdits == 1          \* parameters away from their defaults in Spec
MaxEditsParams == 2    \* parameters away from their defaults in SpecParams

FrameDeltas == {2, 5}
OnsiteInputs == {-15}
RemoteInputs == {-10, 25, 30}
RoomAreaInputs == {0}
HourlyInputs == {-100, 0}
O2LpmInputs == {10}
CurrencyInputs == {<<>>, EUR}
TopicInputs == {<<>>, <<" ", "a", " ">>}
NoteInputs == {<<" ">>, <<"b", "\n">>}

(* The 50 ms throttle of the timer effect (line 195), in centiseconds. *)
Throttle == 5

VARIABLES
    numOnsite, numRemote, roomArea, hourlyCostPerPerson, currency, o2Lpm,
    isRunning, elapsed, lastTickRef,
    topic, note, notes,
    mounted,        \* the component is mounted
    now,            \* performance.now(), in centiseconds
    rafCallbacks,   \* the animation-frame callbacks the browser holds
    id,             \* id.current of the timer effect's last run
    uuidCount,      \* the identifiers uuid() has returned
    lastOp,         \* the last operation on the clock (a reset: with the clock it found)
    baseTime,       \* the time of the first sample of the running interval
    sumClosed,      \* the time the ended running intervals have added
    probe, out      \* a pure function's arguments and result

params == <<numOnsite, numRemote, roomArea, hourlyCostPerPerson, currency, o2Lpm>>
clock == <<isRunning, elapsed, lastTickRef>>
frames == <<rafCallbacks, id>>
noteLog == <<topic, note, notes, uuidCount>>
pure == <<probe, out>>
history == <<baseTime, sumClosed>>
vars == <<params, clock, frames, noteLog, mounted, now, lastOp, history, pure>>

(* useRef(null): lastTickRef.current is <<>> for null, <<t>> for a time. *)
Null == <<>>

(***************************************************************************)
(* Derived values of a render (lines 207-229).                             *)
(***************************************************************************)
onsite == ClampCount(numOnsite)
remote == ClampCount(numRemote)
participants == Participants(numOnsite, numRemote)
(* The oxygen model fed with every participant. *)
o2_everyParticipant ==
    computeO2Fraction(elapsed, participants, roomArea, DefaultCeiling, o2Lpm)

o2 == computeO2Fraction(elapsed, onsite, roomArea, DefaultCeiling, o2Lpm)
eqAlt == equivalentAltitudeFromFraction(o2.frac)
liveCost == LiveCostOf(participants, hourlyCostPerPerson, elapsed)

Op(name) == [name |-> name]

(***************************************************************************)
(* State after construction (lines 174-184, 233-235) and the first run of  *)
(* the timer effect, which finds isRunning false.                          *)
(***************************************************************************)
InitComponent ==
    /\ numOnsite = 40 /\ numRemote = 20 /\ roomArea = 300
    /\ hourlyCostPerPerson = 800 /\ currency = CHF /\ o2Lpm = 6
    /\ isRunning = FALSE /\ elapsed = 0 /\ lastTickRef = Null
    /\ topic = <<>> /\ note = <<>> /\ notes = <<>>
    /\ mounted = TRUE /\ now = 0
    /\ rafCallbacks = {} /\ id = 0
    /\ uuidCount = 0
    /\ lastOp = Op("init")
    /\ baseTime = Null /\ sumClosed = 0

Init == InitComponent /\ probe = <<>> /\ out = <<>>

(***************************************************************************)
(* The timer effect (lines 186-205).                                       *)
(***************************************************************************)
(* requestAnimationFrame returns a handle that names no other callback:    *)
(* the least one that no pending callback has and id.current does not hold.*)
NewHandle(callbacks) ==
    CHOOSE h \in 1..(Cardinality(callbacks) + 2) :
        /\ h # id
        /\ \A c \in callbacks : c.handle # h
        /\ \A g \in 1..(h - 1) : g = id \/ \E c \in callbacks : c.handle = g

(* A cleanup that cancels nothing. *)
Cleanup_noCancel(callbacks, handle) ==
    {[c EXCEPT !.stale = TRUE] : c \in callbacks}

(* cancelAnimationFrame(id.current) (line 204): the cleanup of the effect  *)
(* run that registered the callbacks; what it leaves behind belongs to no  *)
(* live effect.                                                            *)
Cleanup(callbacks, handle) ==
    {[c EXCEPT !.stale = TRUE] : c \in {c \in callbacks : c.handle # handle}}

(* The effect without lastTickRef.current = null. *)
EffectRun_keepsLastTick(running) ==
    IF running
    THEN /\ id' = NewHandle(rafCallbacks)
         /\ rafCallbacks' = rafCallbacks \cup {[handle |-> NewHandle(rafCallbacks), stale |-> FALSE]}
         /\ UNCHANGED lastTickRef
    ELSE /\ rafCallbacks' = Cleanup(rafCallbacks, id)
         /\ UNCHANGED <<lastTickRef, id>>

(* The effect's cleanup and run after isRunning changed (lines 187-204). *)
EffectRun(running) ==
    IF running
    THEN /\ id' = NewHandle(rafCallbacks)
         /\ rafCallbacks' = rafCallbacks \cup {[handle |-> NewHandle(rafCallbacks), stale |-> FALSE]}
         /\ UNCHANGED lastTickRef
    ELSE /\ rafCallbacks' = Cleanup(rafCallbacks, id)
         /\ lastTickRef' = Null
         /\ UNCHANGED id

(* What a running interval has added when it ends: the time from its first *)
(* sample to its last accepted one.                                        *)
IntervalEnds ==
    /\ baseTime' = Null
    /\ sumClosed' = sumClosed + (IF baseTime = Null THEN 0 ELSE lastTickRef[1] - baseTime[1])

(* Start/Pause button (line 353): setIsRunning((r) => !r), the render and  *)
(* the effect's cleanup and run that follow it.                            *)
Toggle ==
    /\ mounted
    /\ isRunning' = ~isRunning
    /\ EffectRun(~isRunning)
    /\ IF isRunning THEN IntervalEnds ELSE UNCHANGED history
    /\ lastOp' = Op(IF isRunning THEN "pause" ELSE "start")
    /\ UNCHANGED <<elapsed, params, noteLog, mounted, now, pure>>

(* A reset that only pauses: no setElapsed(0). *)
Reset_onlyPauses ==
    /\ mounted
    /\ isRunning' = FALSE
    /\ elapsed' = elapsed
    /\ IF isRunning THEN EffectRun(FALSE)
                    ELSE UNCHANGED <<lastTickRef, frames>>
    /\ baseTime' = Null /\ sumClosed' = 0
    /\ lastOp' = [name |-> "reset", isRunning |-> isRunning, elapsed |-> elapsed,
                  pending |-> rafCallbacks # {}]
    /\ UNCHANGED <<params, noteLog, mounted, now, pure>>

(* A reset that also empties the note sequence: setNotes([]) added to the  *)
(* handler of lines 358-361.                                               *)
Reset_clearsNotes ==
    /\ mounted
    /\ isRunning' = FALSE
    /\ elapsed' = 0
    /\ IF isRunning THEN EffectRun(FALSE)
                    ELSE UNCHANGED <<lastTickRef, frames>>
    /\ baseTime' = Null /\ sumClosed' = 0
    /\ lastOp' = [name |-> "reset", isRunning |-> isRunning, elapsed |-> elapsed,
                  pending |-> rafCallbacks # {}]
    /\ notes' = <<>>
    /\ UNCHANGED <<params, topic, note, uuidCount, mounted, now, pure>>

(* Reset button (lines 358-361): setIsRunning(false); setElapsed(0).  The  *)
(* effect runs again only when isRunning changed.                          *)
Reset ==
    /\ mounted
    /\ isRunning' = FALSE
    /\ elapsed' = 0
    /\ IF isRunning THEN EffectRun(FALSE)
                    ELSE UNCHANGED <<lastTickRef, frames>>
    /\ baseTime' = Null /\ sumClosed' = 0
    /\ lastOp' = [name |-> "reset", isRunning |-> isRunning, elapsed |-> elapsed,
                  pending |-> rafCallbacks # {}]
    /\ UNCHANGED <<params, noteLog, mounted, now, pure>>

(* The callback re-registers itself without storing the handle:            *)
(* requestAnimationFrame(raf) for id.current = requestAnimationFrame(raf). *)
Raf_handleNotStored(c, d, horizon) ==
    /\ c \in rafCallbacks
    /\ now + d <= horizon
    /\ now' = now + d
    /\ LET last == IF lastTickRef = Null THEN now' ELSE lastTickRef[1]
           dt == now' - last
       IN  IF dt >= Throttle
           THEN elapsed' = elapsed + dt /\ lastTickRef' = <<now'>>
           ELSE elapsed' = elapsed /\ lastTickRef' = <<last>>
    /\ rafCallbacks' = (rafCallbacks \ {c})
                          \cup {[handle |-> NewHandle(rafCallbacks \ {c}), stale |-> c.stale]}
    /\ id' = id
    /\ baseTime' = (IF lastTickRef = Null THEN <<now'>> ELSE baseTime)
    /\ lastOp' = Op("raf")
    /\ UNCHANGED <<isRunning, sumClosed, params, noteLog, mounted, pure>>

(* The browser runs an animation frame d after the last event: the         *)
(* callback raf of lines 191-201.                                          *)
Raf(c, d, horizon) ==
    /\ c \in rafCallbacks
    /\ now + d <= horizon
    /\ now' = now + d
    /\ LET last == IF lastTickRef = Null THEN now' ELSE lastTickRef[1]
           dt == now' - last
       IN  IF dt >= Throttle
           THEN elapsed' = elapsed + dt /\ lastTickRef' = <<now'>>
           ELSE elapsed' = elapsed /\ lastTickRef' = <<last>>
    /\ rafCallbacks' = (rafCallbacks \ {c})
                          \cup {[handle |-> NewHandle(rafCallbacks \ {c}), stale |-> c.stale]}
    /\ id' = IF c.stale THEN id ELSE NewHandle(rafCallbacks \ {c})
    /\ baseTime' = (IF lastTickRef = Null THEN <<now'>> ELSE baseTime)
    /\ lastOp' = Op("raf")
    /\ UNCHANGED <<isRunning, sumClosed, params, noteLog, mounted, pure>>

(* Wall-clock time passes with no frame run.  While the clock runs, time   *)
(* passes from one frame to the next (Raf).                                *)
TimePasses(d, horizon) ==
    /\ mounted /\ ~isRunning
    /\ now + d <= horizon
    /\ now' = now + d
    /\ lastOp' = Op("time")
    /\ UNCHANGED <<clock, frames, params, noteLog, mounted, history, pure>>

(* Unmount: the effect's cleanup (line 204) runs if the effect is armed. *)
Unmount ==
    /\ mounted
    /\ mounted' = FALSE
    /\ rafCallbacks' = IF isRunning THEN Cleanup(rafCallbacks, id) ELSE rafCallbacks
    /\ lastOp' = Op("unmount")
    /\ UNCHANGED <<clock, id, params, noteLog, now, history, pure>>

(***************************************************************************)
(* Parameter edits (lines 291, 301, 312, 323, 336, 346): the value typed   *)
(* is stored as it is.                                                     *)
(***************************************************************************)
(* The parameters that differ from their defaults (lines 174-179). *)
Edited(on, re, ar, ho, cu, o2v) ==
    Cardinality({k \in 1..6 : <<on, re, ar, ho, cu, o2v>>[k] # <<40, 20, 300, 800, CHF, 6>>[k]})

SetNumOnsite(v, budget) ==
    /\ mounted
    /\ Edited(v, numRemote, roomArea, hourlyCostPerPerson, currency, o2Lpm) <= budget
    /\ numOnsite' = v
    /\ UNCHANGED <<numRemote, roomArea, hourlyCostPerPerson, currency, o2Lpm>>
    /\ UNCHANGED <<clock, frames, noteLog, mounted, now, lastOp, history, pure>>

SetNumRemote(v, budget) ==
    /\ mounted
    /\ Edited(numOnsite, v, roomArea, hourlyCostPerPerson, currency, o2Lpm) <= budget
    /\ numRemote' = v
    /\ UNCHANGED <<numOnsite, roomArea, hourlyCostPerPerson, currency, o2Lpm>>
    /\ UNCHANGED <<clock, frames, noteLog, mounted, now, lastOp, history, pure>>

SetRoomArea(v, budget) ==
    /\ mounted
    /\ Edited(numOnsite, numRemote, v, hourlyCostPerPerson, currency, o2Lpm) <= budget
    /\ roomArea' = v
    /\ UNCHANGED <<numOnsite, numRemote, hourlyCostPerPerson, currency, o2Lpm>>
    /\ UNCHANGED <<clock, frames, noteLog, mounted, now, lastOp, history, pure>>

SetO2Lpm(v, budget) ==
    /\ mounted
    /\ Edited(numOnsite, numRemote, roomArea, hourlyCostPerPerson, currency, v) <= budget
    /\ o2Lpm' = v
    /\ UNCHANGED <<numOnsite, numRemote, roomArea, hourlyCostPerPerson, currency>>
    /\ UNCHANGED <<clock, frames, noteLog, mounted, now, lastOp, history, pure>>

SetHourlyCostPerPerson(v, budget) ==
    /\ mounted
    /\ Edited(numOnsite, numRemote, roomArea, v, currency, o2Lpm) <= budget
    /\ hourlyCostPerPerson' = v
    /\ UNCHANGED <<numOnsite, numRemote, roomArea, currency, o2Lpm>>
    /\ UNCHANGED <<clock, frames, noteLog, mounted, now, lastOp, history, pure>>

(* setCurrency(e.target.value || "CHF") (line 346). *)
SetCurrency(v, budget) ==
    /\ mounted
    /\ Edited(numOnsite, numRemote, roomArea, hourlyCostPerPerson, (IF v # <<>> THEN v ELSE CHF), o2Lpm) <= budget
    /\ currency' = (IF v # <<>> THEN v ELSE CHF)
    /\ UNCHANGED <<numOnsite, numRemote, roomArea, hourlyCostPerPerson, o2Lpm>>
    /\ UNCHANGED <<clock, frames, noteLog, mounted, now, lastOp, history, pure>>

(***************************************************************************)
(* Topics and notes (lines 233-246, 455, 466, 471-472).                    *)
(***************************************************************************)
SetTopic(s) ==
    /\ mounted
    /\ topic' = s
    /\ UNCHANGED <<note, notes, uuidCount, params, clock, frames, mounted, now, lastOp, history, pure>>

SetNote(s) ==
    /\ mounted
    /\ note' = s
    /\ UNCHANGED <<topic, notes, uuidCount, params, clock, frames, mounted, now, lastOp, history, pure>>

(* uuid() (line 242): the k-th identifier returned is k. *)
uuid == uuidCount + 1

(* The note addNote prepends (line 242). *)
NewNote(t, n) ==
    [id |-> uuid, ts |-> elapsed, topic |-> IF t # <<>> THEN t ELSE Untitled, text |-> n]

addNote(cap) ==
    /\ mounted
    /\ LET t == Trim(topic)
           n == Trim(note)
       IN  IF t = <<>> /\ n = <<>>
           THEN UNCHANGED <<note, notes, uuidCount>>
           ELSE /\ uuidCount < cap
                /\ notes' = <<NewNote(t, n)>> \o notes
                /\ note' = <<>>
                /\ uuidCount' = uuidCount + 1
    /\ UNCHANGED <<topic, params, clock, frames, mounted, now, lastOp, history, pure>>

(* Clear button (line 472): setNotes([]). *)
ClearNotes ==
    /\ mounted
    /\ notes' = <<>>
    /\ UNCHANGED <<topic, note, uuidCount, params, clock, frames, mounted, now, lastOp, history, pure>>

ClockStep(horizon) ==
    \/ Toggle
    \/ Reset
    \/ \E c \in rafCallbacks, d \in FrameDeltas : Raf(c, d, horizon)
    \/ \E d \in FrameDeltas : TimePasses(d, horizon)
    \/ Unmount

ParamStep(budget) ==
    \/ \E v \in OnsiteInputs : SetNumOnsite(v, budget)
    \/ \E v \in RemoteInputs : SetNumRemote(v, budget)
    \/ \E v \in RoomAreaInputs : SetRoomArea(v, budget)
    \/ \E v \in O2LpmInputs : SetO2Lpm(v, budget)
    \/ \E v \in HourlyInputs : SetHourlyCostPerPerson(v, budget)
    \/ \E v \in CurrencyInputs : SetCurrency(v, budget)

NoteStep(cap) ==
    \/ \E s \in TopicInputs : SetTopic(s)
    \/ \E s \in NoteInputs : SetNote(s)
    \/ addNote(cap)
    \/ ClearNotes

(* The whole component: every intent and the clock. *)
Next == ClockStep(MaxNow) \/ ParamStep(MaxEdits) \/ NoteStep(MaxUuid)
Spec == Init /\ [][Next]_vars

(* The clock alone, over a longer time. *)
NextClock == ClockStep(MaxNowClock)
SpecClock == Init /\ [][NextClock]_vars

(* The clock and the note log. *)
NextNotes == ClockStep(MaxNow) \/ NoteStep(MaxUuidNotes)
SpecNotes == Init /\ [][NextNotes]_vars

(* The clock and the parameter edits. *)
NextParams == ClockStep(MaxNow) \/ ParamStep(MaxEditsParams)
SpecParams == Init /\ [][NextParams]_vars

(***************************************************************************)
(* The pure functions applied to arguments drawn from bounded sets: the    *)
(* component stays as constructed, probe holds the arguments and out the   *)
(* result.                                                                 *)
(***************************************************************************)
SecondsInputs == {0, 1, 6000, 60000, 360000, 1200000}
CountInputs == {0, 1, 4, 10}
AreaInputs == {-50, 0, 4, 50, 300}
LpmInputs == {-10, 0, 6, 10}
FracInputs ==
    {Rat(n, 1) : n \in {-1000, 0, 1, 200, 10000, 59000, 59100, 100000, 208000,
                        209000, 209001, 250000, 1000000}}
        \cup {Rat(1, 3), Rat(418000, 3), Rat(627001, 3)}
CostOnsiteInputs == {-15, 0, 40}
CostRemoteInputs == {0, 25}
CostHourlyInputs == {-100, 0, 5, 800}
CostSecondsInputs == {0, 1, 50, 90000, 180000}

O2Probes ==
    [fn : {"o2"}, seconds : SecondsInputs, onsite : CountInputs,
     roomArea : AreaInputs, perPersonO2Lpm : LpmInputs]
AltProbes == [fn : {"alt"}, frac : FracInputs]
CostProbes ==
    [fn : {"cost"}, numOnsite : CostOnsiteInputs, numRemote : CostRemoteInputs,
     hourly : CostHourlyInputs, seconds : CostSecondsInputs]

InitPure ==
    /\ InitComponent
    /\ probe \in O2Probes \cup AltProbes \cup CostProbes
    /\ out = <<>>

ApplyO2 ==
    /\ probe.fn = "o2" /\ out = <<>>
    /\ out' = <<computeO2Fraction(probe.seconds, probe.onsite, probe.roomArea,
                                  DefaultCeiling, probe.perPersonO2Lpm)>>
    /\ UNCHANGED <<probe, params, clock, frames, noteLog, mounted, now, lastOp, history>>

ApplyAltitude ==
    /\ probe.fn = "alt" /\ out = <<>>
    /\ out' = <<equivalentAltitudeFromFraction(probe.frac)>>
    /\ UNCHANGED <<probe, params, clock, frames, noteLog, mounted, now, lastOp, history>>

ApplyCost ==
    /\ probe.fn = "cost" /\ out = <<>>
    /\ out' = <<LiveCostOf(Participants(probe.numOnsite, probe.numRemote),
                           probe.hourly, probe.seconds)>>
    /\ UNCHANGED <<probe, params, clock, frames, noteLog, mounted, now, lastOp, history>>

NextPure == ApplyO2 \/ ApplyAltitude \/ ApplyCost
SpecPure == InitPure /\ [][NextPure]_vars

(***************************************************************************)
(* Claims about the pure functions, under SpecPure.                        *)
(***************************************************************************)

(* C3: for seconds >= 0 and onsite >= 0, whatever the room area and the    *)
(* consumption rate, the fraction computeO2Fraction returns lies in        *)
(* [0.01, 0.209] and does not increase when only seconds increases.        *)
C3_FractionRangeAndMonotone ==
    (probe.fn = "o2" /\ out # <<>>) =>
        /\ RLe(Rat(10000, 1), out[1].frac)
        /\ RLe(out[1].frac, Rat(209000, 1))
        /\ \A later \in SecondsInputs :
               later >= probe.seconds =>
                   RLe(computeO2Fraction(later, probe.onsite, probe.roomArea,
                                         DefaultCeiling, probe.perPersonO2Lpm).frac,
                       out[1].frac)

(* An oxygen reading strictly between the floor and the initial fraction. *)
C3_Witness ==
    /\ probe.fn = "o2" /\ out # <<>>
    /\ probe.seconds > 0 /\ probe.onsite > 0
    /\ RLt(Rat(10000, 1), out[1].frac)
    /\ RLt(out[1].frac, Rat(209000, 1))

(* C4: the equivalent altitude is within [0, 8848], does not increase with *)
(* the fraction, is 8848 for every fraction <= 0 and at the floor 0.01,    *)
(* and is 0 at fraction 0.209.                                             *)
C4_AltitudeRangeAndMonotone ==
    (probe.fn = "alt" /\ out # <<>>) =>
        /\ 0 <= out[1] /\ out[1] <= 8848
        /\ \A higher \in FracInputs :
               RLe(probe.frac, higher) => equivalentAltitudeFromFraction(higher) <= out[1]
        /\ RLe(probe.frac, Rat(0, 1)) => out[1] = 8848
        /\ REq(probe.frac, Rat(209000, 1)) => out[1] = 0
        /\ REq(probe.frac, Rat(10000, 1)) => out[1] = 8848

(* The altitude of the floor fraction 0.01 has been computed. *)
C4_Witness ==
    /\ probe.fn = "alt" /\ out = <<8848>>
    /\ REq(probe.frac, Rat(10000, 1))

(* C5: liveCost is (onsitePeople + remotePeople) * (hourly / 3600) *       *)
(* elapsed, doubling elapsed doubles it, and 6 participants at 80 per hour *)
(* for 3600 s cost 480.                                                    *)
C5_LiveCostLinear ==
    (probe.fn = "cost" /\ out # <<>>) =>
        /\ REq(out[1],
               Rat((Max(0, probe.numOnsite \div 10) + Max(0, probe.numRemote \div 10))
                       * probe.hourly * probe.seconds,
                   3600000))
        /\ REq(LiveCostOf(Participants(probe.numOnsite, probe.numRemote),
                          probe.hourly, 2 * probe.seconds),
               Rat(2 * out[1].num, out[1].den))
        /\ REq(LiveCostOf(Participants(40, 20), 800, 360000), Rat(480, 1))

(* Six participants at 80 per hour for half an hour: 240. *)
C5_Witness ==
    /\ probe.fn = "cost" /\ out # <<>>
    /\ Participants(probe.numOnsite, probe.numRemote) = 6
    /\ probe.hourly = 800 /\ probe.seconds = 180000
    /\ REq(out[1], Rat(240, 1))

(***************************************************************************)
(* Claims about the clock.                                                 *)
(***************************************************************************)

(* C1 (Spec): over every intent and every tick, elapsed never decreases    *)
(* except by the reset intent, after which the clock is not running, and   *)
(* while the clock is not running elapsed changes by nothing but a reset.  *)
C1_ElapsedMonotone ==
    [][/\ elapsed' < elapsed => (Reset /\ ~isRunning')
       /\ (~isRunning /\ elapsed' # elapsed) => Reset]_vars

(* The clock is running and a tick has added time. *)
C1_Witness ==
    /\ isRunning /\ elapsed > 0 /\ lastOp.name = "raf"
    /\ lastTickRef = <<now>>

(* C2 (SpecClock): a reset, whatever state it finds, leaves elapsed = 0    *)
(* and the clock not running, and elapsed stays 0 while the clock is not   *)
(* running.                                                                *)
C2_ResetZeroes ==
    [][/\ (lastOp'.name = "reset" /\ lastOp' # lastOp) => (elapsed' = 0 /\ ~isRunning')
       /\ (elapsed = 0 /\ ~isRunning) => elapsed' = 0]_vars

(* A reset has found the clock running, with time counted and a tick      *)
(* callback pending.                                                       *)
C2_Witness ==
    /\ lastOp.name = "reset"
    /\ lastOp.isRunning /\ lastOp.elapsed > 0 /\ lastOp.pending
    /\ elapsed = 0 /\ ~isRunning /\ rafCallbacks = {}

(* C9 (SpecClock): the first sample after a start only sets the baseline;  *)
(* a later sample is accepted when at least 50 ms have passed since the    *)
(* baseline or the last accepted sample and then adds exactly that time;   *)
(* a rejected sample leaves the baseline; so elapsed is the sum over the   *)
(* running intervals (since the last reset) of the time from the baseline  *)
(* to the last accepted sample.                                            *)
C9_Sampling ==
    /\ [](elapsed = sumClosed + (IF baseTime = Null THEN 0
                                 ELSE lastTickRef[1] - baseTime[1]))
    /\ [][/\ (lastOp'.name = "start" /\ ~isRunning /\ isRunning') =>
                 (lastTickRef' = Null /\ elapsed' = elapsed)
          /\ (lastOp'.name = "raf" /\ now' > now) =>
                 IF lastTickRef = Null
                 THEN lastTickRef' = <<now'>> /\ elapsed' = elapsed
                 ELSE IF now' - lastTickRef[1] >= 5
                 THEN elapsed' = elapsed + (now' - lastTickRef[1])
                      /\ lastTickRef' = <<now'>>
                 ELSE elapsed' = elapsed /\ lastTickRef' = lastTickRef]_vars

(* A second running interval has an accepted sample, after a first one     *)
(* that added time and a pause during which time passed.                   *)
C9_Witness ==
    /\ isRunning /\ sumClosed > 0
    /\ baseTime # Null /\ lastTickRef[1] > baseTime[1]
    /\ now - elapsed >= 6

(* C10 (SpecClock): at most one tick callback is registered, only while    *)
(* the clock runs and the component is mounted, and it is the one the live *)
(* effect holds: none outlives a pause, a reset or the unmount.            *)
C10_OneLiveCallback ==
    /\ Cardinality(rafCallbacks) <= 1
    /\ rafCallbacks # {} => (isRunning /\ mounted)
    /\ \A c \in rafCallbacks : ~c.stale /\ c.handle = id

(* A pause after time was counted: the pending callback was cancelled. *)
C10_Witness ==
    /\ lastOp.name = "pause" /\ ~isRunning /\ elapsed > 0
    /\ rafCallbacks = {}

(***************************************************************************)
(* Claims about the parameters and the derived values, under SpecParams.   *)
(***************************************************************************)

(* numRemote changes and no other parameter nor the clock does. *)
RemoteOnlyChange ==
    /\ numRemote' # numRemote
    /\ UNCHANGED <<numOnsite, roomArea, hourlyCostPerPerson, currency, o2Lpm, elapsed>>

(* C6 as claimed: a change of remotePeople alone changes no output of the  *)
(* oxygen model nor the equivalent altitude, and changes liveCost.         *)
C6_AsClaimed ==
    [][RemoteOnlyChange =>
           (o2' = o2 /\ eqAlt' = eqAlt /\ ~REq(liveCost', liveCost))]_vars

(* C6 as amended: a change of remotePeople alone changes no output of the  *)
(* oxygen model nor the equivalent altitude; it changes liveCost exactly   *)
(* when the remote head count max(0, floor(remotePeople)) changes while    *)
(* elapsed > 0 and the hourly cost is not 0.                               *)
C6_RemoteOnlyCost ==
    [][RemoteOnlyChange =>
           /\ o2' = o2
           /\ eqAlt' = eqAlt
           /\ ~REq(liveCost', liveCost) <=>
                  /\ Max(0, numRemote' \div 10) # Max(0, numRemote \div 10)
                  /\ elapsed > 0
                  /\ hourlyCostPerPerson # 0]_vars

(* Three remote people instead of two, with time counted and a cost rate. *)
C6_Witness ==
    /\ numRemote = 30 /\ elapsed > 0 /\ hourlyCostPerPerson # 0
    /\ numOnsite = 40 /\ roomArea = 300 /\ o2Lpm = 6

(* C8 as claimed: in every reachable state, whatever the setters were      *)
(* given, the people counts are non-negative and liveCost, which the       *)
(* clamped parameters are claimed to keep so, is >= 0.                     *)
C8_AsClaimed ==
    /\ onsite >= 0 /\ remote >= 0
    /\ liveCost.num >= 0

(***************************************************************************)
(* Claims about the note log, under SpecNotes.                             *)
(***************************************************************************)
Blank(s) == \A k \in 1..Len(s) : s[k] \in {" ", "\n"}

(* t is s without its leading and trailing white space. *)
IsTrimOf(t, s) ==
    \E i \in 1..(Len(s) + 1), j \in 0..Len(s) :
        /\ i <= j + 1
        /\ t = SubSeq(s, i, j)
        /\ \A k \in 1..(i - 1) : s[k] \in {" ", "\n"}
        /\ \A k \in (j + 1)..Len(s) : s[k] \in {" ", "\n"}
        /\ t # <<>> => (t[1] \notin {" ", "\n"} /\ t[Len(t)] \notin {" ", "\n"})

(* One note is put before the others: stamped with elapsed, with the       *)
(* trimmed topic or the placeholder, the trimmed text and an id no note of *)
(* the sequence has.                                                       *)
Prepended ==
    /\ ~(Blank(topic) /\ Blank(note))
    /\ Len(notes') = Len(notes) + 1
    /\ Tail(notes') = notes
    /\ notes'[1].ts = elapsed
    /\ IF Blank(topic) THEN notes'[1].topic = Untitled
                       ELSE IsTrimOf(notes'[1].topic, topic)
    /\ IsTrimOf(notes'[1].text, note)
    /\ \A i \in 1..Len(notes) : notes[i].id # notes'[1].id

(* C7: addNote with a blank topic and a blank text leaves the sequence     *)
(* unchanged; otherwise it prepends one note (see Prepended); and nothing  *)
(* else puts a note into the sequence.                                     *)
C7_AddNotePrepends ==
    [][/\ addNote(MaxUuidNotes) =>
              IF Blank(topic) /\ Blank(note) THEN notes' = notes ELSE Prepended
       /\ (notes' # notes /\ notes' # <<>>) => Prepended]_vars

(* An untitled note, stamped later, stands before a note with a topic and  *)
(* no text.                                                                *)
C7_Witness ==
    /\ Len(notes) = 2
    /\ notes[1].topic = Untitled /\ notes[1].text = <<"b">>
    /\ notes[2].topic = <<"a">> /\ notes[2].text = <<>>
    /\ notes[1].ts > notes[2].ts
    /\ notes[1].id # notes[2].id

(* C11: the note sequence is changed only by addNote, which puts one note  *)
(* before the others, and by the clear, which empties it.  A step that     *)
(* changes it leaves the clock, the time, the parameters and the mounting  *)
(* alone, so a tick, a start, a pause, a reset, an unmount and a parameter *)
(* edit keep the sequence and with it every stored note's id, timestamp,   *)
(* topic and text; a reset in particular keeps it.                         *)
C11_NotesOwned ==
    [][/\ notes' # notes =>
              /\ \/ notes' = <<>>
                 \/ (Len(notes') = Len(notes) + 1 /\ Tail(notes') = notes)
              /\ clock' = clock /\ now' = now /\ params' = params
              /\ mounted' = mounted /\ lastOp' = lastOp
       /\ (lastOp'.name = "reset" /\ lastOp' # lastOp) => notes' = notes]_vars

(* After a reset that found elapsed > 0, with one parameter edited, the    *)
(* stored note still carries the timestamp it was given, which exceeds the *)
(* current elapsed = 0.                                                    *)
C11_Witness ==
    /\ lastOp.name = "reset" /\ lastOp.elapsed > 0
    /\ elapsed = 0
    /\ Len(notes) = 1 /\ notes[1].ts > elapsed
    /\ Edited(numOnsite, numRemote, roomArea, hourlyCostPerPerson, currency, o2Lpm) = 1

====
